---- MODULE Spec2Model ----
(***************************************************************************)
(* Chain organization core of libbitcoin-blockchain: header_organizer and  *)
(* organize_transaction driving the header pool, the transaction pool and  *)
(* the fast_chain store under the shared prioritized mutex.                *)
(***************************************************************************)
EXTENDS Integers, Naturals, Sequences, FiniteSets, TLC

\* ------------------------------------------------------------------ bounds
\* Number of concurrent organize invocations (caller threads).
NumCalls == 2
\* Number of concurrent organize invocations in the sessions that contend
\* for the prioritized mutex (a holder, a header waiter, a transaction
\* waiter), and the number of invocations made in such a session.
NumLockCalls == 3
MaxLock == 3
\* Number of invocations made in a session checked for progress.
MaxLive == 2
\* Header universe 1..NumHeaders above the genesis header 0.
NumHeaders == 5
\* Transaction universe 1..NumTxs.
NumTxs == 3
\* Number of organize invocations made in one session of header calls.
MaxOrganize == 3
\* Number of organize invocations made in one session of transaction calls.
MaxTxOrganize == 2
\* The sessions that mix header and transaction invocations take their
\* inputs from headers 1..NumMixed and transactions 1..NumMixed and make
\* MaxMixed invocations.
NumMixed == 2
MaxMixed == 2
\* Direct calls of sufficient_fee take fees of at most MaxFee / FeeScale
\* satoshi per byte and per sigop, and transactions of at most MaxSize
\* bytes and MaxSigops signature operations paying at most MaxPaid satoshi.
MaxFee == 3
MaxSize == 3
MaxSigops == 2
MaxPaid == 3

\* Call slots, and the slots taken by the caller threads of the sessions
\* of NumCalls concurrent invocations.
Calls == 1..NumLockCalls
Callers == 1..NumCalls
NoCall == 0

Genesis == 0
Headers == 1..NumHeaders
Txs == 1..NumTxs

\* ------------------------------------------------------------ input data
\* previous-hash of a header: the universe is a binary tree over genesis.
Parent(h) == (h - 1) \div 2
\* proof-of-work implied by the header's compact target (bits).
Work(h) == IF h % 3 = 0 THEN 2 ELSE 1

\* Transaction attributes read by the policy checks.
TxSize(t) == 2 * t
TxSigops(t) == t % 2
TxFees(t) == IF t % 2 = 1 THEN 0 ELSE t
TxMinOutput(t) == IF t % 2 = 1 THEN 100 ELSE 1000

\* Fee settings are floats in the code; they are held here in units of
\* 1/FeeScale satoshi (binary fractions, exact in float arithmetic as long
\* as the products stay below 2^24, which all products formed here do).
FeeScale == 4
NoFeeSettings == [byte_fee |-> 0, sigop_fee |-> 0, minimum_output |-> 546]
FeeSettings == [byte_fee |-> 2, sigop_fee |-> 1, minimum_output |-> 546]
\* A quarter satoshi per signature operation and nothing per byte.
SmallFeeSettings == [byte_fee |-> 0, sigop_fee |-> 1, minimum_output |-> 546]
\* The configurations of the sessions of transaction calls: no fee policy,
\* and a fee policy under which a tx can cost a fraction of a satoshi.
Settings == {NoFeeSettings, SmallFeeSettings}
\* Every configuration of non-negative fees up to MaxFee / FeeScale.
FeeConfigs ==
    {[byte_fee |-> b, sigop_fee |-> s, minimum_output |-> 546] :
        b \in 0..MaxFee, s \in 0..MaxFee}

\* ----------------------------------------------------------- result codes
Success == "success"
HeaderCheckCodes == {Success, "invalid_proof_of_work"}
HeaderAcceptCodes == {Success, "incorrect_proof_of_work"}
TxCheckCodes == {Success, "empty_transaction"}
TxAcceptCodes == {Success, "missing_previous_output"}
TxConnectCodes == {Success, "validate_inputs_failed"}
\* Codes a fast_chain write (reorganize, store) can return.
StoreCodes == {Success, "store_error"}
NoCode == "none"

VARIABLES
    h_stopped,   \* header_organizer::stopped_
    t_stopped,   \* organize_transaction::stopped_
    owner,       \* holder of the prioritized mutex (NoCall when free)
    candidate,   \* fast_chain candidate header index above genesis, by height
    corrupted,   \* a fast_chain write failed: "store is now corrupted"
    txstore,     \* transactions committed by fast_chain.store
    pool,        \* header_pool: pooled header -> height
    txpool,      \* transaction_pool membership
    settings,    \* blockchain settings (fees, dust threshold)
    resume,      \* organize_transaction::resume_ (promise state and value)
    kind,        \* which organizer the invocation runs in
    pc,          \* position of each organize invocation
    arg,         \* header or tx handed to the invocation
    ec,          \* code carried by the invocation to its handler
    branch,      \* header_branch assembled by the invocation
    vec,         \* code the validator handed to the last continuation
    required,    \* required_work obtained from get_work
    trace,       \* collaborator calls made by the invocation, in order
    result,      \* codes the caller's handler has received
    organized,   \* number of organize invocations made so far
    quote        \* arguments and return of the last direct sufficient_fee call

vars == <<h_stopped, t_stopped, owner, candidate, corrupted, txstore, pool,
          txpool, settings, resume, kind, pc, arg, ec, branch, vec, required,
          trace, result,
          organized, quote>>

chain_vars == <<candidate, corrupted, txstore>>
call_vars == <<kind, pc, arg, ec, branch, vec, required, trace, result,
               organized>>

EmptyBranch == [headers |-> <<>>, fork |-> Genesis, height |-> 0]
\* sufficient_fee has not been called directly.
NoQuote ==
    [called |-> FALSE, size |-> 0, sigops |-> 0, paid |-> 0, result |-> FALSE]

InitWith(pools, configs) ==
    /\ h_stopped = TRUE
    /\ t_stopped = TRUE
    /\ owner = NoCall
    /\ candidate = <<>>
    /\ corrupted = FALSE
    /\ txstore = {}
    /\ pool = <<>>
    /\ txpool \in pools
    /\ settings \in configs
    /\ resume = [set |-> FALSE, value |-> NoCode]
    /\ kind = [c \in Calls |-> "none"]
    /\ pc = [c \in Calls |-> "idle"]
    /\ arg = [c \in Calls |-> 0]
    /\ ec = [c \in Calls |-> NoCode]
    /\ branch = [c \in Calls |-> EmptyBranch]
    /\ vec = [c \in Calls |-> NoCode]
    /\ required = [c \in Calls |-> 0]
    /\ trace = [c \in Calls |-> <<>>]
    /\ result = [c \in Calls |-> <<>>]
    /\ organized = 0
    /\ quote = NoQuote

\* The transaction pool and the settings are handed to the organizers at
\* construction.
Init == InitWith({{1}}, Settings)
InitHeaders == InitWith({{}}, {FeeSettings})
InitMixed == InitWith({{1}}, {FeeSettings})
InitFee == InitWith({{}}, FeeConfigs)

\* ------------------------------------------------------------- fast_chain
\* A header is indexed when the store knows it at a definite height.
IsIndexed(h) == h = Genesis \/ \E i \in 1..Len(candidate) : candidate[i] = h

HeightOf(h) ==
    IF h = Genesis THEN 0 ELSE CHOOSE i \in 1..Len(candidate) : candidate[i] = h

RECURSIVE SumWork(_)
SumWork(hs) == IF hs = <<>> THEN 0 ELSE Work(Head(hs)) + SumWork(Tail(hs))

\* fast_chain::get_work(out, overcome, above_height, candidate = true): sums
\* the work of the candidate headers from the top down to above_height and
\* stops as soon as the sum has reached overcome.
RECURSIVE WorkFrom(_, _, _, _)
WorkFrom(height, above_height, overcome, sum) ==
    IF height > above_height /\ sum < overcome
    THEN WorkFrom(height - 1, above_height, overcome,
                  sum + Work(candidate[height]))
    ELSE sum

get_work(overcome, above_height) ==
    WorkFrom(Len(candidate), above_height, overcome, 0)

\* fast_chain::reorganize(fork_point, headers): the candidate index above
\* the fork point is replaced by the incoming headers.
reorganize(fork_height, headers) ==
    SubSeq(candidate, 1, fork_height) \o headers

\* ------------------------------------------------------------ header_pool
Pooled(h) == h \in DOMAIN pool

\* Walk the parent links from p towards an indexed header; acc is the
\* branch gathered so far (ordered, oldest first).
RECURSIVE WalkBranch(_, _)
WalkBranch(p, acc) ==
    IF IsIndexed(p)
    THEN [headers |-> acc, fork |-> p, height |-> HeightOf(p)]
    ELSE IF Pooled(p)
         THEN WalkBranch(Parent(p), <<p>> \o acc)
         ELSE EmptyBranch

\* header_pool::get_branch(header)
get_branch(h) ==
    IF IsIndexed(h) \/ Pooled(h) THEN EmptyBranch ELSE WalkBranch(Parent(h), <<h>>)

\* header_pool::add(header, height): no-op when already present.
pool_add(h, height) ==
    IF Pooled(h) THEN pool
    ELSE [x \in DOMAIN pool \cup {h} |-> IF x = h THEN height ELSE pool[x]]

\* header_branch accessors.
branch_empty(b) == b.headers = <<>>
branch_top(b) == b.headers[Len(b.headers)]
branch_top_height(b) == b.height + Len(b.headers)
branch_work(b) == SumWork(b.headers)

\* ------------------------------------------------------- transaction_pool
pool_exists(t) == t \in txpool

\* ------------------------------------------------------ prioritized_mutex
HighWaiting == {c \in Calls : kind[c] = "header" /\ pc[c] = "lock"}
CanLockHigh == owner = NoCall
CanLockLow == owner = NoCall /\ HighWaiting = {}

\* ------------------------------------------------------------ tx policy
Max(a, b) == IF a >= b THEN a ELSE b

\* The floor of one satoshi is missing.
price_no_floor(size, sigops) ==
    LET byte == IF settings.byte_fee > 0 THEN settings.byte_fee * size ELSE 0
        sigop == IF settings.sigop_fee > 0
                 THEN settings.sigop_fee * sigops ELSE 0
    IN (byte + sigop) \div FeeScale

\* sufficient_fee: the price of a tx of the given serialized size and
\* signature operations, std::max(uint64_t(1), uint64_t(byte + sigop)).
price(size, sigops) ==
    LET byte == IF settings.byte_fee > 0 THEN settings.byte_fee * size ELSE 0
        sigop == IF settings.sigop_fee > 0
                 THEN settings.sigop_fee * sigops ELSE 0
    IN Max(1, (byte + sigop) \div FeeScale)

\* A tx paying exactly the price is turned down.
paid_above_price(size, sigops, paid) ==
    IF settings.byte_fee = 0 /\ settings.sigop_fee = 0 THEN TRUE
    ELSE paid > price(size, sigops)

\* sufficient_fee on a tx of the given size, signature operations and fees.
paid_sufficient(size, sigops, paid) ==
    IF settings.byte_fee = 0 /\ settings.sigop_fee = 0 THEN TRUE
    ELSE paid >= price(size, sigops)

\* organize_transaction::sufficient_fee
sufficient_fee(t) == paid_sufficient(TxSize(t), TxSigops(t), TxFees(t))

\* transaction::is_dusty(minimum_output_satoshis)
is_dusty(t) == TxMinOutput(t) < settings.minimum_output

\* A direct call sufficient_fee(tx) on a tx of the given size, signature
\* operations and fees.
SufficientFee(size, sigops, paid) ==
    /\ quote' = [called |-> TRUE, size |-> size, sigops |-> sigops,
                 paid |-> paid,
                 result |-> paid_sufficient(size, sigops, paid)]
    /\ UNCHANGED <<h_stopped, t_stopped, owner, chain_vars, pool, txpool,
                   settings, resume, call_vars>>

\* ------------------------------------------------------- start and stop
StartHeaders ==
    /\ h_stopped
    /\ h_stopped' = FALSE
    /\ UNCHANGED <<quote, t_stopped, owner, chain_vars, pool, txpool, settings,
                   resume, call_vars>>

StopHeaders ==
    /\ ~h_stopped
    /\ h_stopped' = TRUE
    /\ UNCHANGED <<quote, t_stopped, owner, chain_vars, pool, txpool, settings,
                   resume, call_vars>>

StartTxs ==
    /\ t_stopped
    /\ t_stopped' = FALSE
    /\ UNCHANGED <<quote, h_stopped, owner, chain_vars, pool, txpool, settings,
                   resume, call_vars>>

StopTxs ==
    /\ ~t_stopped
    /\ t_stopped' = TRUE
    /\ UNCHANGED <<quote, h_stopped, owner, chain_vars, pool, txpool, settings,
                   resume, call_vars>>

\* A caller thread enters organize. The threads are interchangeable, so the
\* next invocation always takes the lowest free slot.
FreeSlot(c) == pc[c] = "idle" /\ \A d \in Calls : d < c => pc[d] # "idle"

\* ------------------------------------------------------ header_organizer
\* The comparison lets a branch of equal work through.
InsufficientWorkStrict(work, required_work) == work < required_work

\* Consensus comparison of handle_accept.
InsufficientWork(work, required_work) == work <= required_work

\* The lock call is missing: the mutex is left as it was.
NotLocked(c) == owner

\* The mutex state after lock_high_priority / lock_low_priority returns to
\* call c.
LockedBy(c) == c

\* The unlock is missing: the mutex stays with its holder.
StillLocked == owner

\* The mutex state after unlock_high_priority / unlock_low_priority.
Unlocked == NoCall

\* organize without the return after handler(error_code): the failed check
\* is reported and the invocation goes on to take the lock.
OrganizeHeaderNoReturn(c, h, check) ==
    /\ FreeSlot(c)
    /\ kind' = [kind EXCEPT ![c] = "header"]
    /\ organized' = organized + 1
    /\ arg' = [arg EXCEPT ![c] = h]
    /\ pc' = [pc EXCEPT ![c] = "lock"]
    /\ IF check # Success
       THEN /\ ec' = [ec EXCEPT ![c] = check]
            /\ trace' = [trace EXCEPT ![c] = <<"check", "handler">>]
            /\ result' = [result EXCEPT ![c] = <<check>>]
       ELSE /\ trace' = [trace EXCEPT ![c] = <<"check">>]
            /\ UNCHANGED <<ec, result>>
    /\ UNCHANGED <<quote, h_stopped, t_stopped, owner, chain_vars, pool, txpool,
                   settings, resume, branch, vec, required>>

\* The stopped flag is tested before the check: a stopped organizer reports
\* service_stopped for a header that fails the check.
OrganizeHeaderStoppedFirst(c, h, check) ==
    /\ FreeSlot(c)
    /\ kind' = [kind EXCEPT ![c] = "header"]
    /\ organized' = organized + 1
    /\ arg' = [arg EXCEPT ![c] = h]
    /\ IF h_stopped \/ check # Success
       THEN LET code == IF h_stopped THEN "service_stopped" ELSE check
            IN /\ pc' = [pc EXCEPT ![c] = "done"]
               /\ ec' = [ec EXCEPT ![c] = code]
               /\ trace' = [trace EXCEPT ![c] = <<"check", "handler">>]
               /\ result' = [result EXCEPT ![c] = <<code>>]
       ELSE /\ pc' = [pc EXCEPT ![c] = "lock"]
            /\ trace' = [trace EXCEPT ![c] = <<"check">>]
            /\ UNCHANGED <<ec, result>>
    /\ UNCHANGED <<quote, h_stopped, t_stopped, owner, chain_vars, pool, txpool,
                   settings, resume, branch, vec, required>>

\* organize: context free check; on failure the handler is invoked directly.
OrganizeHeader(c, h, check) ==
    /\ FreeSlot(c)
    /\ kind' = [kind EXCEPT ![c] = "header"]
    /\ organized' = organized + 1
    /\ arg' = [arg EXCEPT ![c] = h]
    /\ IF check # Success
       THEN /\ pc' = [pc EXCEPT ![c] = "done"]
            /\ ec' = [ec EXCEPT ![c] = check]
            /\ trace' = [trace EXCEPT ![c] = <<"check", "handler">>]
            /\ result' = [result EXCEPT ![c] = <<check>>]
       ELSE /\ pc' = [pc EXCEPT ![c] = "lock"]
            /\ trace' = [trace EXCEPT ![c] = <<"check">>]
            /\ UNCHANGED <<ec, result>>
    /\ UNCHANGED <<quote, h_stopped, t_stopped, owner, chain_vars, pool, txpool,
                   settings, resume, branch,
                   vec, required>>

\* lock_high_priority returns whoever holds the mutex: the header organizer
\* preempts the holder.
LockHighPreempts(c) ==
    /\ kind[c] = "header"
    /\ pc[c] = "lock"
    /\ owner' = LockedBy(c)
    /\ pc' = [pc EXCEPT ![c] = "branch"]
    /\ trace' = [trace EXCEPT ![c] = Append(@, "lock_high")]
    /\ UNCHANGED <<quote, h_stopped, t_stopped, chain_vars, pool, txpool,
                   settings, resume, arg, ec, branch, result, organized, kind,
                   vec, required>>

\* organize: mutex_.lock_high_priority() returns.
LockHigh(c) ==
    /\ kind[c] = "header"
    /\ pc[c] = "lock"
    /\ CanLockHigh
    /\ owner' = LockedBy(c)
    /\ pc' = [pc EXCEPT ![c] = "branch"]
    /\ trace' = [trace EXCEPT ![c] = Append(@, "lock_high")]
    /\ UNCHANGED <<quote, h_stopped, t_stopped, chain_vars, pool, txpool, settings,
                   resume, arg, ec, branch, result,
                   organized, kind,
                   vec, required>>

\* The mutex is released before validator_.accept is called.
OwnerAfterBranchEarly(b) == Unlocked

\* organize after get_branch: the mutex is released by complete only when
\* the branch is empty; validator_.accept runs inside the critical section.
OwnerAfterBranch(b) == IF branch_empty(b) THEN Unlocked ELSE owner

\* The test of branch->empty() is inverted.
GetBranchInverted(c) ==
    /\ kind[c] = "header"
    /\ pc[c] = "branch"
    /\ LET b == get_branch(arg[c])
       IN /\ branch' = [branch EXCEPT ![c] = b]
          /\ IF ~branch_empty(b)
             THEN /\ owner' = Unlocked
                  /\ ec' = [ec EXCEPT ![c] = "duplicate_block"]
                  /\ pc' = [pc EXCEPT ![c] = "handler"]
                  /\ trace' = [trace EXCEPT
                                 ![c] = @ \o <<"get_branch", "unlock_high">>]
             ELSE /\ pc' = [pc EXCEPT ![c] = "accept"]
                  /\ trace' = [trace EXCEPT
                                 ![c] = @ \o <<"get_branch", "accept">>]
                  /\ UNCHANGED <<owner, ec>>
    /\ UNCHANGED <<quote, h_stopped, t_stopped, chain_vars, pool, txpool,
                   settings, resume, arg, vec, required, result, organized,
                   kind>>

\* The return after complete(duplicate_block) is missing: the lock is
\* released, the handler invoked, and organize goes on to validator_.accept
\* with the empty branch.
GetBranchFallThrough(c) ==
    /\ kind[c] = "header"
    /\ pc[c] = "branch"
    /\ LET b == get_branch(arg[c])
       IN /\ owner' = OwnerAfterBranch(b)
          /\ branch' = [branch EXCEPT ![c] = b]
          /\ pc' = [pc EXCEPT ![c] = "accept"]
          /\ IF branch_empty(b)
             THEN /\ ec' = [ec EXCEPT ![c] = "duplicate_block"]
                  /\ result' = [result EXCEPT
                                  ![c] = Append(@, "duplicate_block")]
                  /\ trace' = [trace EXCEPT
                                 ![c] = @ \o <<"get_branch", "unlock_high",
                                               "handler", "accept">>]
             ELSE /\ trace' = [trace EXCEPT
                                 ![c] = @ \o <<"get_branch", "accept">>]
                  /\ UNCHANGED <<ec, result>>
    /\ UNCHANGED <<quote, h_stopped, t_stopped, chain_vars, pool, txpool,
                   settings, resume, arg, vec, required, organized, kind>>

\* organize: get_branch, then either complete(duplicate_block) or
\* validator_.accept(branch, accept_handler).
GetBranch(c) ==
    /\ kind[c] = "header"
    /\ pc[c] = "branch"
    /\ LET b == get_branch(arg[c])
       IN /\ owner' = OwnerAfterBranch(b)
          /\ IF branch_empty(b)
             THEN /\ ec' = [ec EXCEPT ![c] = "duplicate_block"]
                  /\ pc' = [pc EXCEPT ![c] = "handler"]
                  /\ trace' = [trace EXCEPT
                                 ![c] = @ \o <<"get_branch", "unlock_high">>]
                  /\ UNCHANGED branch
             ELSE /\ branch' = [branch EXCEPT ![c] = b]
                  /\ pc' = [pc EXCEPT ![c] = "accept"]
                  /\ trace' = [trace EXCEPT
                                 ![c] = @ \o <<"get_branch", "accept">>]
                  /\ UNCHANGED ec
    /\ UNCHANGED <<quote, h_stopped, t_stopped, chain_vars, pool, txpool, settings,
                   resume, arg, vec, required, result, organized, kind>>

\* The top is pooled at the height of the fork point.
add_top_at_fork(b) == pool_add(branch_top(b), b.height)

\* handle_accept: pool_.add(top, branch->top_height()).
add_top(b) == pool_add(branch_top(b), branch_top_height(b))

\* The rejected branch's top is pooled all the same.
RejectedPoolsTip(c, code) ==
    [code |-> code, ops |-> <<>>, required |-> required[c],
     pool |-> add_top(branch[c]), candidate |-> candidate,
     corrupted |-> corrupted]

\* handle_accept returning early (stopped, or the validator's error): the
\* code goes to complete and nothing else is called.
Rejected(c, code) ==
    [code |-> code, ops |-> <<>>, required |-> required[c],
     pool |-> pool, candidate |-> candidate, corrupted |-> corrupted]

\* The return after handler(insufficient_work) is missing: the top is
\* pooled, insufficient_work is reported and the branch is reorganized in.
WorkOutcomeFallThrough(b, required_work, write) ==
    IF InsufficientWork(branch_work(b), required_work)
    THEN [code |-> "insufficient_work",
          ops |-> <<"get_work", "pool_add", "reorganize">>,
          required |-> required_work, pool |-> add_top(b),
          candidate |-> reorganize(b.height, b.headers),
          corrupted |-> corrupted]
    ELSE [code |-> write, ops |-> <<"get_work", "reorganize">>,
          required |-> required_work, pool |-> pool,
          candidate |-> IF write = Success
                        THEN reorganize(b.height, b.headers) ELSE candidate,
          corrupted |-> corrupted \/ write # Success]

\* reorganize is handed the top of the branch alone.
WorkOutcomeTopOnly(b, required_work, write) ==
    IF InsufficientWork(branch_work(b), required_work)
    THEN [code |-> "insufficient_work", ops |-> <<"get_work", "pool_add">>,
          required |-> required_work, pool |-> add_top(b),
          candidate |-> candidate, corrupted |-> corrupted]
    ELSE IF write # Success
    THEN [code |-> write, ops |-> <<"get_work", "reorganize">>,
          required |-> required_work, pool |-> pool,
          candidate |-> candidate, corrupted |-> TRUE]
    ELSE [code |-> write, ops |-> <<"get_work", "reorganize">>,
          required |-> required_work, pool |-> pool,
          candidate |-> reorganize(b.height, <<branch_top(b)>>),
          corrupted |-> corrupted]

\* handle_accept from the consensus comparison on: pool the top, or
\* reorganize and hand on the code reorganize returned.
WorkOutcome(b, required_work, write) ==
    IF InsufficientWork(branch_work(b), required_work)
    THEN [code |-> "insufficient_work", ops |-> <<"get_work", "pool_add">>,
          required |-> required_work, pool |-> add_top(b),
          candidate |-> candidate, corrupted |-> corrupted]
    ELSE IF write # Success
    THEN [code |-> write, ops |-> <<"get_work", "reorganize">>,
          required |-> required_work, pool |-> pool,
          candidate |-> candidate, corrupted |-> TRUE]
    ELSE [code |-> write, ops |-> <<"get_work", "reorganize">>,
          required |-> required_work, pool |-> pool,
          candidate |-> reorganize(b.height, b.headers),
          corrupted |-> corrupted]

\* The validator's code is tested before the stopped flag.
AcceptOutcomeErrorFirst(c, accept, work_ok, write) ==
    IF accept # Success THEN Rejected(c, accept)
    ELSE IF h_stopped THEN Rejected(c, "service_stopped")
    ELSE IF ~work_ok
    THEN [code |-> "operation_failed", ops |-> <<"get_work">>,
          required |-> required[c], pool |-> pool, candidate |-> candidate,
          corrupted |-> corrupted]
    ELSE WorkOutcome(branch[c],
                     get_work(branch_work(branch[c]), branch[c].height),
                     write)

\* The return of get_work is not tested.
AcceptOutcomeWorkUnchecked(c, accept, work_ok, write) ==
    IF h_stopped THEN Rejected(c, "service_stopped")
    ELSE IF accept # Success THEN Rejected(c, accept)
    ELSE WorkOutcome(branch[c],
                     get_work(branch_work(branch[c]), branch[c].height),
                     write)

\* handle_accept(ec, branch, complete): accept is the validator's code,
\* work_ok the return of get_work, write the code reorganize returns.
\* The outcome is the code handed to complete, the collaborator calls made,
\* the local required_work and the new pool and store.
AcceptOutcome(c, accept, work_ok, write) ==
    IF h_stopped THEN Rejected(c, "service_stopped")
    ELSE IF accept # Success THEN Rejected(c, accept)
    ELSE IF ~work_ok
    THEN [code |-> "operation_failed", ops |-> <<"get_work">>,
          required |-> required[c], pool |-> pool, candidate |-> candidate,
          corrupted |-> corrupted]
    ELSE WorkOutcome(branch[c],
                     get_work(branch_work(branch[c]), branch[c].height),
                     write)

\* handle_accept followed by handle_complete up to the unlock.
HandleAccept(c, accept, work_ok, write) ==
    /\ kind[c] = "header"
    /\ pc[c] = "accept"
    /\ LET out == AcceptOutcome(c, accept, work_ok, write)
       IN /\ pool' = out.pool
          /\ candidate' = out.candidate
          /\ corrupted' = out.corrupted
          /\ required' = [required EXCEPT ![c] = out.required]
          /\ ec' = [ec EXCEPT ![c] = out.code]
          /\ trace' = [trace EXCEPT
                         ![c] = @ \o <<"handle_accept">> \o out.ops
                                  \o <<"unlock_high">>]
    /\ vec' = [vec EXCEPT ![c] = accept]
    /\ owner' = Unlocked
    /\ pc' = [pc EXCEPT ![c] = "handler"]
    /\ UNCHANGED <<quote, h_stopped, t_stopped, txstore, txpool, settings, resume,
                   arg, branch, result, organized, kind>>

\* The caller's handler is invoked with the code, outside the critical
\* section.
Handler(c) ==
    /\ pc[c] = "handler"
    /\ result' = [result EXCEPT ![c] = Append(@, ec[c])]
    /\ trace' = [trace EXCEPT ![c] = Append(@, "handler")]
    /\ pc' = [pc EXCEPT ![c] = "done"]
    /\ UNCHANGED <<quote, h_stopped, t_stopped, owner, chain_vars, pool, txpool,
                   settings, resume, arg, ec, branch,
                   organized, kind,
                   vec, required>>

\* organize has returned; the slot is free for the next invocation.
Return(c) ==
    /\ pc[c] = "done"
    /\ pc' = [pc EXCEPT ![c] = "idle"]
    /\ kind' = [kind EXCEPT ![c] = "none"]
    /\ arg' = [arg EXCEPT ![c] = 0]
    /\ ec' = [ec EXCEPT ![c] = NoCode]
    /\ branch' = [branch EXCEPT ![c] = EmptyBranch]
    /\ vec' = [vec EXCEPT ![c] = NoCode]
    /\ required' = [required EXCEPT ![c] = 0]
    /\ trace' = [trace EXCEPT ![c] = <<>>]
    /\ result' = [result EXCEPT ![c] = <<>>]
    /\ UNCHANGED <<quote, h_stopped, t_stopped, owner, chain_vars, pool, txpool,
                   settings, resume, organized>>

\* --------------------------------------------------- organize_transaction
\* service_stopped is not signalled: the waiting organize is left blocked.
signal_completion_unless_stopped(code) ==
    IF resume.set \/ code = "service_stopped" THEN resume
    ELSE [set |-> TRUE, value |-> code]

\* signal_completion(ec): resume_.set_value(ec); a satisfied promise keeps
\* its first value.
signal_completion(code) ==
    IF resume.set THEN resume ELSE [set |-> TRUE, value |-> code]

\* organize without the return after handler(error_code): the failed check
\* is reported and the invocation goes on to take the lock.
OrganizeTxNoReturn(c, t, check) ==
    /\ FreeSlot(c)
    /\ kind' = [kind EXCEPT ![c] = "tx"]
    /\ organized' = organized + 1
    /\ arg' = [arg EXCEPT ![c] = t]
    /\ pc' = [pc EXCEPT ![c] = "lock"]
    /\ IF check # Success
       THEN /\ ec' = [ec EXCEPT ![c] = check]
            /\ trace' = [trace EXCEPT ![c] = <<"check", "handler">>]
            /\ result' = [result EXCEPT ![c] = <<check>>]
       ELSE /\ trace' = [trace EXCEPT ![c] = <<"check">>]
            /\ UNCHANGED <<ec, result>>
    /\ UNCHANGED <<quote, h_stopped, t_stopped, owner, chain_vars, pool, txpool,
                   settings, resume, branch, vec, required>>

\* organize: context free check; on failure the handler is invoked directly.
OrganizeTx(c, t, check) ==
    /\ FreeSlot(c)
    /\ kind' = [kind EXCEPT ![c] = "tx"]
    /\ organized' = organized + 1
    /\ arg' = [arg EXCEPT ![c] = t]
    /\ IF check # Success
       THEN /\ pc' = [pc EXCEPT ![c] = "done"]
            /\ ec' = [ec EXCEPT ![c] = check]
            /\ trace' = [trace EXCEPT ![c] = <<"check", "handler">>]
            /\ result' = [result EXCEPT ![c] = <<check>>]
       ELSE /\ pc' = [pc EXCEPT ![c] = "lock"]
            /\ trace' = [trace EXCEPT ![c] = <<"check">>]
            /\ UNCHANGED <<ec, result>>
    /\ UNCHANGED <<quote, h_stopped, t_stopped, owner, chain_vars, pool, txpool,
                   settings, resume, branch,
                   vec, required>>

\* The transaction organizer takes the mutex with lock_high_priority.
LockLowAsHigh(c) ==
    /\ kind[c] = "tx"
    /\ pc[c] = "lock"
    /\ CanLockHigh
    /\ owner' = LockedBy(c)
    /\ pc' = [pc EXCEPT ![c] = "entered"]
    /\ trace' = [trace EXCEPT ![c] = Append(@, "lock_low")]
    /\ UNCHANGED <<quote, h_stopped, t_stopped, chain_vars, pool, txpool,
                   settings, resume, arg, ec, branch, result, organized, kind,
                   vec, required>>

\* organize: mutex_.lock_low_priority() returns.
LockLow(c) ==
    /\ kind[c] = "tx"
    /\ pc[c] = "lock"
    /\ CanLockLow
    /\ owner' = LockedBy(c)
    /\ pc' = [pc EXCEPT ![c] = "entered"]
    /\ trace' = [trace EXCEPT ![c] = Append(@, "lock_low")]
    /\ UNCHANGED <<quote, h_stopped, t_stopped, chain_vars, pool, txpool, settings,
                   resume, arg, ec, branch, result,
                   organized, kind,
                   vec, required>>

\* The promise is not reset: the call waits on the promise as the call
\* before it left it.
TxEnterNoReset(c) ==
    /\ kind[c] = "tx"
    /\ pc[c] = "entered"
    /\ IF t_stopped
       THEN /\ owner' = Unlocked
            /\ ec' = [ec EXCEPT ![c] = "service_stopped"]
            /\ pc' = [pc EXCEPT ![c] = "handler"]
            /\ trace' = [trace EXCEPT ![c] = Append(@, "unlock_low")]
       ELSE IF pool_exists(arg[c])
       THEN /\ owner' = Unlocked
            /\ ec' = [ec EXCEPT ![c] = "duplicate_transaction"]
            /\ pc' = [pc EXCEPT ![c] = "handler"]
            /\ trace' = [trace EXCEPT
                           ![c] = @ \o <<"pool_exists", "unlock_low">>]
       ELSE /\ pc' = [pc EXCEPT ![c] = "accept"]
            /\ trace' = [trace EXCEPT
                           ![c] = @ \o <<"pool_exists", "accept">>]
            /\ UNCHANGED <<owner, ec>>
    /\ UNCHANGED <<quote, h_stopped, t_stopped, chain_vars, pool, txpool,
                   settings, resume, arg, branch, result, organized, kind,
                   vec, required>>

\* The promise is reset before the pool is asked.
TxEnterResetFirst(c) ==
    /\ kind[c] = "tx"
    /\ pc[c] = "entered"
    /\ IF t_stopped
       THEN /\ owner' = Unlocked
            /\ ec' = [ec EXCEPT ![c] = "service_stopped"]
            /\ pc' = [pc EXCEPT ![c] = "handler"]
            /\ trace' = [trace EXCEPT ![c] = Append(@, "unlock_low")]
            /\ UNCHANGED resume
       ELSE IF pool_exists(arg[c])
       THEN /\ owner' = Unlocked
            /\ resume' = [set |-> FALSE, value |-> NoCode]
            /\ ec' = [ec EXCEPT ![c] = "duplicate_transaction"]
            /\ pc' = [pc EXCEPT ![c] = "handler"]
            /\ trace' = [trace EXCEPT
                           ![c] = @ \o <<"reset", "pool_exists",
                                         "unlock_low">>]
       ELSE /\ resume' = [set |-> FALSE, value |-> NoCode]
            /\ pc' = [pc EXCEPT ![c] = "accept"]
            /\ trace' = [trace EXCEPT
                           ![c] = @ \o <<"reset", "pool_exists", "accept">>]
            /\ UNCHANGED <<owner, ec>>
    /\ UNCHANGED <<quote, h_stopped, t_stopped, chain_vars, pool, txpool,
                   settings, arg, branch, result, organized, kind, vec,
                   required>>

\* The stopped test after the lock is missing.
TxEnterNoStop(c) ==
    /\ kind[c] = "tx"
    /\ pc[c] = "entered"
    /\ IF pool_exists(arg[c])
       THEN /\ owner' = Unlocked
            /\ ec' = [ec EXCEPT ![c] = "duplicate_transaction"]
            /\ pc' = [pc EXCEPT ![c] = "handler"]
            /\ trace' = [trace EXCEPT
                           ![c] = @ \o <<"pool_exists", "unlock_low">>]
            /\ UNCHANGED resume
       ELSE /\ resume' = [set |-> FALSE, value |-> NoCode]
            /\ pc' = [pc EXCEPT ![c] = "accept"]
            /\ trace' = [trace EXCEPT
                           ![c] = @ \o <<"pool_exists", "reset", "accept">>]
            /\ UNCHANGED <<owner, ec>>
    /\ UNCHANGED <<quote, h_stopped, t_stopped, chain_vars, pool, txpool,
                   settings, arg, branch, result, organized, kind, vec,
                   required>>

\* organize from the stopped test to validator_.accept(tx, accept_handler).
TxEnter(c) ==
    /\ kind[c] = "tx"
    /\ pc[c] = "entered"
    /\ IF t_stopped
       THEN /\ owner' = Unlocked
            /\ ec' = [ec EXCEPT ![c] = "service_stopped"]
            /\ pc' = [pc EXCEPT ![c] = "handler"]
            /\ trace' = [trace EXCEPT ![c] = Append(@, "unlock_low")]
            /\ UNCHANGED resume
       ELSE IF pool_exists(arg[c])
       THEN /\ owner' = Unlocked
            /\ ec' = [ec EXCEPT ![c] = "duplicate_transaction"]
            /\ pc' = [pc EXCEPT ![c] = "handler"]
            /\ trace' = [trace EXCEPT
                           ![c] = @ \o <<"pool_exists", "unlock_low">>]
            /\ UNCHANGED resume
       ELSE /\ resume' = [set |-> FALSE, value |-> NoCode]
            /\ pc' = [pc EXCEPT ![c] = "accept"]
            /\ trace' = [trace EXCEPT
                           ![c] = @ \o <<"pool_exists", "reset", "accept">>]
            /\ UNCHANGED <<owner, ec>>
    /\ UNCHANGED <<quote, h_stopped, t_stopped, chain_vars, pool, txpool, settings,
                   arg, branch, result,
                   organized, kind,
                   vec, required>>

\* The dust policy is applied before the fee policy.
TxAcceptCodeDustFirst(t, accept) ==
    IF t_stopped THEN "service_stopped"
    ELSE IF accept # Success THEN accept
    ELSE IF is_dusty(t) THEN "dusty_transaction"
    ELSE IF ~sufficient_fee(t) THEN "insufficient_fee"
    ELSE NoCode

\* The validator's code is tested before the stopped flag.
TxAcceptCodeErrorFirst(t, accept) ==
    IF accept # Success THEN accept
    ELSE IF t_stopped THEN "service_stopped"
    ELSE IF ~sufficient_fee(t) THEN "insufficient_fee"
    ELSE IF is_dusty(t) THEN "dusty_transaction"
    ELSE NoCode

\* The code handle_accept hands to its handler, or NoCode when it goes on
\* to validator_.connect.
TxAcceptCode(t, accept) ==
    IF t_stopped THEN "service_stopped"
    ELSE IF accept # Success THEN accept
    ELSE IF ~sufficient_fee(t) THEN "insufficient_fee"
    ELSE IF is_dusty(t) THEN "dusty_transaction"
    ELSE NoCode

\* handle_accept(ec, tx, complete)
TxHandleAccept(c, accept) ==
    /\ kind[c] = "tx"
    /\ pc[c] = "accept"
    /\ LET code == TxAcceptCode(arg[c], accept)
       IN IF code # NoCode
          THEN /\ resume' = signal_completion(code)
               /\ pc' = [pc EXCEPT ![c] = "wait"]
               /\ trace' = [trace EXCEPT
                              ![c] = @ \o <<"handle_accept", "signal">>]
          ELSE /\ pc' = [pc EXCEPT ![c] = "connect"]
               /\ trace' = [trace EXCEPT
                              ![c] = @ \o <<"handle_accept", "connect">>]
               /\ UNCHANGED resume
    /\ vec' = [vec EXCEPT ![c] = accept]
    /\ UNCHANGED <<quote, h_stopped, t_stopped, owner, chain_vars, pool, txpool,
                   settings, arg, ec, branch, required, result,
                   organized, kind>>

\* A failed store is logged and success is handed on.
ConnectOutcomeErrorDropped(t, connect, write) ==
    IF t_stopped
    THEN [code |-> "service_stopped", ops |-> <<>>,
          txstore |-> txstore, corrupted |-> corrupted]
    ELSE IF connect # Success
    THEN [code |-> connect, ops |-> <<>>,
          txstore |-> txstore, corrupted |-> corrupted]
    ELSE IF write # Success
    THEN [code |-> Success, ops |-> <<"store">>,
          txstore |-> txstore, corrupted |-> TRUE]
    ELSE [code |-> write, ops |-> <<"store">>,
          txstore |-> txstore \cup {t}, corrupted |-> corrupted]

\* A failed store is reported as operation_failed, not as the store's code.
ConnectOutcomeOperationFailed(t, connect, write) ==
    IF t_stopped
    THEN [code |-> "service_stopped", ops |-> <<>>,
          txstore |-> txstore, corrupted |-> corrupted]
    ELSE IF connect # Success
    THEN [code |-> connect, ops |-> <<>>,
          txstore |-> txstore, corrupted |-> corrupted]
    ELSE IF write # Success
    THEN [code |-> "operation_failed", ops |-> <<"store">>,
          txstore |-> txstore, corrupted |-> TRUE]
    ELSE [code |-> write, ops |-> <<"store">>,
          txstore |-> txstore \cup {t}, corrupted |-> corrupted]

\* The store is written before the validator's code is tested.
ConnectOutcomeStoreFirst(t, connect, write) ==
    IF t_stopped
    THEN [code |-> "service_stopped", ops |-> <<>>,
          txstore |-> txstore, corrupted |-> corrupted]
    ELSE IF write # Success
    THEN [code |-> write, ops |-> <<"store">>,
          txstore |-> txstore, corrupted |-> TRUE]
    ELSE [code |-> connect, ops |-> <<"store">>,
          txstore |-> txstore \cup {t}, corrupted |-> corrupted]

\* The outcome of handle_connect: the code handed to the handler, whether
\* fast_chain_.store(tx) was called and the new store.
ConnectOutcome(t, connect, write) ==
    IF t_stopped
    THEN [code |-> "service_stopped", ops |-> <<>>,
          txstore |-> txstore, corrupted |-> corrupted]
    ELSE IF connect # Success
    THEN [code |-> connect, ops |-> <<>>,
          txstore |-> txstore, corrupted |-> corrupted]
    ELSE IF write # Success
    THEN [code |-> write, ops |-> <<"store">>,
          txstore |-> txstore, corrupted |-> TRUE]
    ELSE [code |-> write, ops |-> <<"store">>,
          txstore |-> txstore \cup {t}, corrupted |-> corrupted]

\* handle_connect(ec, tx, complete)
TxHandleConnect(c, connect, write) ==
    /\ kind[c] = "tx"
    /\ pc[c] = "connect"
    /\ LET out == ConnectOutcome(arg[c], connect, write)
       IN /\ txstore' = out.txstore
          /\ corrupted' = out.corrupted
          /\ resume' = signal_completion(out.code)
          /\ trace' = [trace EXCEPT
                         ![c] = @ \o <<"handle_connect">> \o out.ops
                                  \o <<"signal">>]
    /\ pc' = [pc EXCEPT ![c] = "wait"]
    /\ vec' = [vec EXCEPT ![c] = connect]
    /\ UNCHANGED <<quote, h_stopped, t_stopped, owner, candidate, pool, txpool,
                   settings, arg, ec, branch, required, result,
                   organized, kind>>

\* organize: resume_.get_future().get() returns, then unlock_low_priority.
TxResume(c) ==
    /\ kind[c] = "tx"
    /\ pc[c] = "wait"
    /\ resume.set
    /\ ec' = [ec EXCEPT ![c] = resume.value]
    /\ owner' = Unlocked
    /\ pc' = [pc EXCEPT ![c] = "handler"]
    /\ trace' = [trace EXCEPT ![c] = @ \o <<"resume", "unlock_low">>]
    /\ UNCHANGED <<quote, h_stopped, t_stopped, chain_vars, pool, txpool, settings,
                   resume, arg, branch, result,
                   organized, kind,
                   vec, required>>

\* ------------------------------------------------------------------- next
\* Header organizer steps of a session of at most budget invocations over
\* the headers H.
HeaderNext(H, budget) ==
    \/ StartHeaders
    \/ StopHeaders
    \/ \E c \in Callers, h \in H, check \in HeaderCheckCodes :
           organized < budget /\ OrganizeHeader(c, h, check)
    \/ \E c \in Calls : LockHigh(c)
    \/ \E c \in Calls : GetBranch(c)
    \/ \E c \in Calls, accept \in HeaderAcceptCodes, work_ok \in BOOLEAN,
          write \in StoreCodes : HandleAccept(c, accept, work_ok, write)

\* Transaction organizer steps of a session of at most budget invocations
\* over the transactions T.
TxNext(T, budget) ==
    \/ StartTxs
    \/ StopTxs
    \/ \E c \in Callers, t \in T, check \in TxCheckCodes :
           organized < budget /\ OrganizeTx(c, t, check)
    \/ \E c \in Calls : LockLow(c)
    \/ \E c \in Calls : TxEnter(c)
    \/ \E c \in Calls, accept \in TxAcceptCodes : TxHandleAccept(c, accept)
    \/ \E c \in Calls, connect \in TxConnectCodes, write \in StoreCodes :
           TxHandleConnect(c, connect, write)
    \/ \E c \in Calls : TxResume(c)

CallNext ==
    \/ \E c \in Calls : Handler(c)
    \/ \E c \in Calls : Return(c)

\* Sessions of header organize invocations only.
NextHeaders == HeaderNext(Headers, MaxOrganize) \/ CallNext
SpecHeaders == InitHeaders /\ [][NextHeaders]_vars

\* Sessions of transaction organize invocations only.
NextTxs == TxNext(Txs, MaxTxOrganize) \/ CallNext
SpecTxs == Init /\ [][NextTxs]_vars

\* Sessions mixing header and transaction invocations.
Next ==
    \/ HeaderNext(1..NumMixed, MaxMixed)
    \/ TxNext(1..NumMixed, MaxMixed)
    \/ CallNext
Spec == InitMixed /\ [][Next]_vars

\* Sessions of header 1, of transaction 2, which pays its price and has no
\* dust output, and of transaction 3, which pays nothing and has one; none
\* is pooled.
NextPolicy ==
    \/ HeaderNext({1}, MaxMixed)
    \/ TxNext({2, 3}, MaxMixed)
    \/ CallNext
SpecPolicy == InitHeaders /\ [][NextPolicy]_vars

\* Sessions of up to NumLockCalls concurrent invocations contending for the
\* mutex: header 1 and transaction 2, which every validator step accepts.
NextLock ==
    \/ StartHeaders
    \/ StartTxs
    \/ StopTxs
    \/ \E c \in Calls : organized < MaxLock /\ OrganizeHeader(c, 1, Success)
    \/ \E c \in Calls : organized < MaxLock /\ OrganizeTx(c, 2, Success)
    \/ \E c \in Calls : LockHigh(c)
    \/ \E c \in Calls : GetBranch(c)
    \/ \E c \in Calls : HandleAccept(c, Success, TRUE, Success)
    \/ \E c \in Calls : LockLow(c)
    \/ \E c \in Calls : TxEnter(c)
    \/ \E c \in Calls : TxHandleAccept(c, Success)
    \/ \E c \in Calls : TxHandleConnect(c, Success, Success)
    \/ \E c \in Calls : TxResume(c)
    \/ CallNext
SpecLock == InitHeaders /\ [][NextLock]_vars

\* Sessions of NumCalls concurrent invocations of header 1 and transaction
\* 2 with the scheduling the organizers rely on: the mutex is granted
\* fairly to the waiters it can be granted to, the validator calls every
\* handler it was given, and a thread that can run does run. Nothing
\* obliges a caller to call organize, start or stop.
NextLive ==
    \/ StartHeaders
    \/ StartTxs
    \/ StopTxs
    \/ \E c \in Callers : organized < MaxLive /\ OrganizeHeader(c, 1, Success)
    \/ \E c \in Callers : organized < MaxLive /\ OrganizeTx(c, 2, Success)
    \/ \E c \in Callers : LockHigh(c)
    \/ \E c \in Callers : GetBranch(c)
    \/ \E c \in Callers : HandleAccept(c, Success, TRUE, Success)
    \/ \E c \in Callers : LockLow(c)
    \/ \E c \in Callers : TxEnter(c)
    \/ \E c \in Callers : TxHandleAccept(c, Success)
    \/ \E c \in Callers : TxHandleConnect(c, Success, Success)
    \/ \E c \in Callers : TxResume(c)
    \/ \E c \in Callers : Handler(c)
    \/ \E c \in Callers : Return(c)
Fairness ==
    \A c \in Callers :
        /\ SF_vars(LockHigh(c))
        /\ SF_vars(LockLow(c))
        /\ WF_vars(GetBranch(c))
        /\ WF_vars(HandleAccept(c, Success, TRUE, Success))
        /\ WF_vars(TxEnter(c))
        /\ WF_vars(TxHandleAccept(c, Success))
        /\ WF_vars(TxHandleConnect(c, Success, Success))
        /\ WF_vars(TxResume(c))
        /\ WF_vars(Handler(c))
SpecLive == InitHeaders /\ [][NextLive]_vars /\ Fairness

\* Direct calls of sufficient_fee under every fee configuration.
NextFee ==
    \E size \in 0..MaxSize, sigops \in 0..MaxSigops, paid \in 0..MaxPaid :
        SufficientFee(size, sigops, paid)
SpecFee == InitFee /\ [][NextFee]_vars

\* ------------------------------------------------------------- properties
Count(s, x) == Cardinality({i \in DOMAIN s : s[i] = x})
Has(s, x) == \E i \in DOMAIN s : s[i] = x
\* x occurs in s and no y occurs before its first occurrence.
Before(s, x, y) ==
    \E i \in DOMAIN s : s[i] = x /\ \A j \in 1..i : s[j] # y
\* The collaborator calls the step adds to the trace of call c.
NewOps(c) ==
    IF Len(trace'[c]) > Len(trace[c])
    THEN SubSeq(trace'[c], Len(trace[c]) + 1, Len(trace'[c]))
    ELSE <<>>
Locks(c) == Count(trace[c], "lock_high") + Count(trace[c], "lock_low")
Unlocks(c) == Count(trace[c], "unlock_high") + Count(trace[c], "unlock_low")

\* C1: every header organize call invokes its handler exactly once with a
\* result code: never before the call's work is over, never twice, and
\* once by the time organize has returned, on every path.
C1_HeaderHandlerOnce ==
    \A c \in Calls :
        kind[c] = "header" =>
            /\ Len(result[c]) = Count(trace[c], "handler")
            /\ pc[c] # "done" => result[c] = <<>>
            /\ pc[c] = "done" =>
                   /\ Len(result[c]) = 1
                   /\ result[c][1] # NoCode
                   /\ result[c][1] = ec[c]

\* Two header calls have returned, one after a reorganize and one after an
\* empty branch.
C1_Witness ==
    \E c, d \in Calls :
        /\ kind[c] = "header" /\ pc[c] = "done" /\ result[c] = <<Success>>
        /\ Has(trace[c], "reorganize")
        /\ kind[d] = "header" /\ pc[d] = "done"
        /\ result[d] = <<"duplicate_block">>

\* C2: every transaction organize call invokes its handler exactly once
\* with a result code, on every path.
C2_TxHandlerOnce ==
    \A c \in Calls :
        kind[c] = "tx" =>
            /\ Len(result[c]) = Count(trace[c], "handler")
            /\ pc[c] # "done" => result[c] = <<>>
            /\ pc[c] = "done" =>
                   /\ Len(result[c]) = 1
                   /\ result[c][1] # NoCode
                   /\ result[c][1] = ec[c]

\* Two transaction calls have returned, one after a store and one stopped
\* in a continuation.
C2_Witness ==
    \E c, d \in Calls :
        /\ kind[c] = "tx" /\ pc[c] = "done" /\ result[c] = <<Success>>
        /\ Has(trace[c], "store")
        /\ kind[d] = "tx" /\ pc[d] = "done"
        /\ result[d] = <<"service_stopped">>
        /\ Has(trace[d], "handle_connect")

\* C3: a call that took the mutex releases it exactly once, its handler
\* runs only after that release, a call that never took it never releases
\* it, and the mutex is held exactly while some call is between its lock
\* and its unlock (so it is free when no call is in progress).
C3_LockReleasedOnce ==
    /\ \A c \in Calls :
           /\ Unlocks(c) <= Locks(c) /\ Locks(c) <= 1
           /\ pc[c] \in {"handler", "done"} => Unlocks(c) = Locks(c)
           /\ (Has(trace[c], "handler") /\ Locks(c) = 1) =>
                  (Before(trace[c], "unlock_high", "handler")
                   \/ Before(trace[c], "unlock_low", "handler"))
           /\ owner = c <=> (Locks(c) = 1 /\ Unlocks(c) = 0)
    /\ (\A c \in Calls : pc[c] \in {"idle", "done"}) => owner = NoCall

\* A header call and a transaction call have both gone through the
\* critical section and returned.
C3_Witness ==
    \E c, d \in Calls :
        /\ kind[c] = "header" /\ pc[c] = "done" /\ Locks(c) = 1
        /\ Has(trace[c], "handle_accept")
        /\ kind[d] = "tx" /\ pc[d] = "done" /\ Locks(d) = 1
        /\ Has(trace[d], "resume")

\* The call is inside its critical section.
InCriticalSection(c) ==
    \/ kind[c] = "header" /\ pc[c] \in {"branch", "accept"}
    \/ kind[c] = "tx" /\ pc[c] \in {"entered", "accept", "connect", "wait"}

\* C4: at most one organize call, of either kind, is inside its critical
\* section, it is the holder of the mutex, and the branch a header call
\* holds while its validator runs is still what get_branch gives: no other
\* call has changed the pool or the store under it.
C4_Serialized ==
    /\ Cardinality({c \in Calls : InCriticalSection(c)}) <= 1
    /\ \A c \in Calls :
           /\ InCriticalSection(c) => owner = c
           /\ (kind[c] = "header" /\ pc[c] = "accept") =>
                  branch[c] = get_branch(arg[c])

\* Two concurrent header calls for the same header have returned: one
\* reorganized, the other found the header indexed.
C4_Witness ==
    \E c, d \in Calls :
        /\ kind[c] = "header" /\ kind[d] = "header" /\ arg[c] = arg[d]
        /\ pc[c] = "done" /\ result[c] = <<Success>>
        /\ pc[d] = "done" /\ result[d] = <<"duplicate_block">>

GuardedOps ==
    {"get_branch", "pool_add", "get_work", "reorganize", "pool_exists",
     "store"}

\* C5: every call of get_branch, pool add, get_work, reorganize, exists and
\* store is made by the holder of the mutex, before its unlock, the holder
\* having locked with the priority of its organizer.
C5_CallsUnderLock ==
    [][\A c \in Calls :
           \A i \in DOMAIN NewOps(c) :
               NewOps(c)[i] \in GuardedOps =>
                   /\ owner = c
                   /\ \A j \in 1..i :
                          NewOps(c)[j] \notin {"unlock_high", "unlock_low"}
                   /\ Has(trace[c], IF kind[c] = "header" THEN "lock_high"
                                    ELSE "lock_low")]_vars

\* A header call has reorganized and a transaction call has stored.
C5_Witness ==
    \E c, d \in Calls :
        /\ kind[c] = "header" /\ Has(trace[c], "reorganize")
        /\ kind[d] = "tx" /\ Has(trace[d], "store")

\* Work of the whole candidate chain above a height (no short circuit).
WorkAbove(height) == SumWork(SubSeq(candidate, height + 1, Len(candidate)))

\* Number of headers between a header and genesis.
RECURSIVE Depth(_)
Depth(h) == IF h = Genesis THEN 0 ELSE 1 + Depth(Parent(h))

\* The step is handle_accept of header call c.
AcceptStep(c) == kind[c] = "header" /\ pc[c] = "accept" /\ pc'[c] = "handler"

\* C6: when handle_accept gets past get_work, it reorganizes if and only if
\* the branch work exceeds required_work (equally: the work of the whole
\* candidate chain above the fork point); otherwise, equal work included,
\* it ends with insufficient_work.
C6_ReorganizeIffMoreWork ==
    [][\A c \in Calls :
           (AcceptStep(c) /\ Has(NewOps(c), "get_work")
                /\ ec'[c] # "operation_failed") =>
               LET work == branch_work(branch[c])
               IN /\ Has(NewOps(c), "reorganize") <=> work > required'[c]
                  /\ Has(NewOps(c), "reorganize") <=>
                         work > WorkAbove(branch[c].height)
                  /\ work <= required'[c] =>
                         /\ ec'[c] = "insufficient_work"
                         /\ candidate' = candidate
                  /\ (work > required'[c] /\ ec'[c] = Success) =>
                         candidate' = SubSeq(candidate, 1, branch[c].height)
                                          \o branch[c].headers]_vars

\* One call was rejected with work equal to required_work and another has
\* reorganized with work = required_work + 1 over a non-empty segment.
C6_Witness ==
    \E c, d \in Calls :
        /\ kind[c] = "header" /\ pc[c] = "done"
        /\ result[c] = <<"insufficient_work">>
        /\ branch_work(branch[c]) = required[c]
        /\ kind[d] = "header" /\ pc[d] = "handler" /\ ec[d] = Success
        /\ required[d] >= 1
        /\ branch_work(branch[d]) = required[d] + 1

\* C7: a header call that ends with insufficient_work has made exactly one
\* pool add and no reorganize; its header H is the branch top and is pooled
\* at fork point height + number of branch headers, and that add changed
\* nothing else of the pool.
C7_TipPooled ==
    /\ [](\A c \in Calls :
              (kind[c] = "header" /\ pc[c] \in {"handler", "done"}
                   /\ ec[c] = "insufficient_work") =>
                  /\ Count(trace[c], "pool_add") = 1
                  /\ ~Has(trace[c], "reorganize")
                  /\ branch_top(branch[c]) = arg[c]
                  /\ Pooled(arg[c])
                  /\ pool[arg[c]] = branch[c].height + Len(branch[c].headers)
                  /\ pool[arg[c]] = Depth(arg[c]))
    /\ [][\A c \in Calls :
              (AcceptStep(c) /\ ec'[c] = "insufficient_work") =>
                  /\ DOMAIN pool' = DOMAIN pool \cup {arg[c]}
                  /\ \A h \in DOMAIN pool : pool'[h] = pool[h]
                  /\ candidate' = candidate]_vars

\* A branch forking above genesis was rejected: its top is pooled at
\* height 2, next to the candidate header of that height.
C7_Witness ==
    \E c \in Calls :
        /\ kind[c] = "header" /\ pc[c] = "done"
        /\ result[c] = <<"insufficient_work">>
        /\ branch[c].height = 1
        /\ Len(candidate) = 2
        /\ Pooled(arg[c]) /\ pool[arg[c]] = 2

\* The code a step of call c arrives at: the code it signals to the waiting
\* organize call, or the code it carries to its handler.
StepCode(c) == IF Has(NewOps(c), "signal") THEN resume'.value ELSE ec'[c]

\* Call c takes the step in which its result code is decided.
Acting(c) == NewOps(c) # <<>> /\ ec[c] = NoCode /\ StepCode(c) # NoCode

\* The store or a pool changes only in the step that decides the result
\* code of a call.
MutatedByDecidingStep ==
    (chain_vars' # chain_vars \/ pool' # pool \/ txpool' # txpool) =>
        \E c \in Calls : Acting(c)

\* A reorganize or store made in the step failed.
WriteFailed(c) ==
    /\ Has(NewOps(c), "reorganize") \/ Has(NewOps(c), "store")
    /\ StepCode(c) \in StoreCodes \ {Success}

\* C8 as stated: the store changes only in a step of a call that arrives at
\* success, so a call ending with any other code, the code of a failed
\* reorganize or store included, leaves the store as it was.
C8_StoreUnchangedUnlessSuccess ==
    [][chain_vars' # chain_vars =>
           \E c \in Calls : Acting(c) /\ StepCode(c) = Success]_vars

\* C8 amended: the store changes only in a step of a call that arrives at
\* success or in a step whose reorganize or store failed (the store is then
\* corrupted); a call ending with any other code leaves it as it was.
C8_StoreUnchangedUnlessWrite ==
    [][chain_vars' # chain_vars =>
           \E c \in Calls :
               /\ Acting(c)
               /\ \/ StepCode(c) = Success
                  \/ WriteFailed(c) /\ corrupted']_vars

\* A header call ended with operation_failed and a transaction call with
\* the validator's connect code, next to a store neither has touched.
C8_Witness ==
    \E c, d \in Calls :
        /\ kind[c] = "header" /\ pc[c] = "done"
        /\ result[c] = <<"operation_failed">>
        /\ kind[d] = "tx" /\ pc[d] = "done"
        /\ result[d] = <<"validate_inputs_failed">>
        /\ ~corrupted /\ candidate = <<>> /\ txstore = {}

RejectionCodes ==
    {"duplicate_block", "duplicate_transaction", "insufficient_work",
     "insufficient_fee", "dusty_transaction"}
        \cup ((HeaderCheckCodes \cup HeaderAcceptCodes \cup TxCheckCodes
                   \cup TxAcceptCodes \cup TxConnectCodes) \ {Success})

\* C9 as stated: a step of a call that arrives at a rejection code changes
\* neither the store nor the header pool nor the transaction pool.
C9_RejectionMutatesNothing ==
    [][/\ MutatedByDecidingStep
       /\ \A c \in Calls :
              (Acting(c) /\ StepCode(c) \in RejectionCodes) =>
                  /\ chain_vars' = chain_vars
                  /\ pool' = pool
                  /\ txpool' = txpool]_vars

\* C9 amended: a step of a call that arrives at a rejection code changes
\* neither the store nor the transaction pool; it leaves the header pool
\* alone too, except that insufficient_work adds the call's header to it.
C9_RejectionMutatesOnlyPool ==
    [][/\ MutatedByDecidingStep
       /\ \A c \in Calls :
              (Acting(c) /\ StepCode(c) \in RejectionCodes) =>
                  /\ chain_vars' = chain_vars
                  /\ txpool' = txpool
                  /\ IF StepCode(c) = "insufficient_work"
                     THEN /\ DOMAIN pool' = DOMAIN pool \cup {arg[c]}
                          /\ arg[c] \notin DOMAIN pool
                          /\ \A h \in DOMAIN pool : pool'[h] = pool[h]
                     ELSE pool' = pool]_vars

\* A header call was rejected with insufficient_work: its header is in the
\* pool, beside the candidate chain it did not outwork.
C9_Witness ==
    \E c \in Calls :
        /\ kind[c] = "header" /\ pc[c] = "done"
        /\ result[c] = <<"insufficient_work">>
        /\ Pooled(arg[c]) /\ candidate # <<>> /\ ~corrupted

\* The validator reported an error to handle_accept of header call c, which
\* has completed.
AcceptFailed(c) ==
    /\ kind[c] = "header" /\ pc[c] \in {"handler", "done"}
    /\ vec[c] \notin {NoCode, Success}

\* C10 as stated: after an accept error the lock is released, the code for
\* the handler is the validator's code, and no pool add, get_work or
\* reorganize was made, whenever stop() happened.
C10_AcceptErrorReported ==
    \A c \in Calls :
        AcceptFailed(c) =>
            /\ ec[c] = vec[c]
            /\ owner # c /\ Unlocks(c) = 1
            /\ ~Has(trace[c], "pool_add")
            /\ ~Has(trace[c], "get_work")
            /\ ~Has(trace[c], "reorganize")

\* C10 amended: after an accept error the lock is released and no pool add,
\* get_work or reorganize was made; the code for the handler is the
\* validator's code if the organizer was not stopped when handle_accept ran
\* and service_stopped if it was; pool and store are as before.
C10_AcceptErrorOrStopped ==
    /\ [](\A c \in Calls :
              AcceptFailed(c) =>
                  /\ ec[c] \in {vec[c], "service_stopped"}
                  /\ owner # c /\ Unlocks(c) = 1
                  /\ ~Has(trace[c], "pool_add")
                  /\ ~Has(trace[c], "get_work")
                  /\ ~Has(trace[c], "reorganize"))
    /\ [][\A c \in Calls :
              (AcceptStep(c) /\ vec'[c] # Success) =>
                  /\ ec'[c] = IF h_stopped THEN "service_stopped"
                              ELSE vec'[c]
                  /\ pool' = pool
                  /\ chain_vars' = chain_vars]_vars

\* Two header calls whose validator reported an error have returned: one
\* with the validator's code, one with service_stopped.
C10_Witness ==
    \E c, d \in Calls :
        /\ AcceptFailed(c) /\ pc[c] = "done" /\ result[c] = <<vec[c]>>
        /\ AcceptFailed(d) /\ pc[d] = "done"
        /\ result[d] = <<"service_stopped">>

\* The step runs the named continuation of transaction call c.
TxContinuation(c, name) == kind[c] = "tx" /\ Has(NewOps(c), name)

\* The code signalled to a waiting transaction call is the code its handler
\* receives: the promise keeps it until organize resumes, organize carries
\* it to the handler.
SignalReachesHandler ==
    \A c \in Calls :
        /\ (kind[c] = "tx" /\ pc[c] = "wait" /\ pc'[c] = "wait") =>
               resume' = resume
        /\ Has(NewOps(c), "resume") => ec'[c] = resume.value
        /\ (pc[c] = "handler" /\ pc'[c] = "done") => result'[c] = <<ec[c]>>

\* C11: a continuation (header handle_accept, transaction handle_accept,
\* transaction handle_connect) that runs while its organizer is stopped
\* ends the call with service_stopped and makes no get_work, reorganize,
\* store, pool add or further validator step: it leaves pools and store as
\* they were.
C11_StoppedContinuation ==
    [][/\ SignalReachesHandler
       /\ \A c \in Calls :
              /\ (AcceptStep(c) /\ h_stopped) =>
                     /\ ec'[c] = "service_stopped"
                     /\ NewOps(c) = <<"handle_accept", "unlock_high">>
                     /\ pool' = pool /\ txpool' = txpool
                     /\ chain_vars' = chain_vars
              /\ (t_stopped /\ TxContinuation(c, "handle_accept")) =>
                     /\ resume' = [set |-> TRUE, value |-> "service_stopped"]
                     /\ NewOps(c) = <<"handle_accept", "signal">>
                     /\ pool' = pool /\ txpool' = txpool
                     /\ chain_vars' = chain_vars
              /\ (t_stopped /\ TxContinuation(c, "handle_connect")) =>
                     /\ resume' = [set |-> TRUE, value |-> "service_stopped"]
                     /\ NewOps(c) = <<"handle_connect", "signal">>
                     /\ pool' = pool /\ txpool' = txpool
                     /\ chain_vars' = chain_vars]_vars

\* A header call whose branch the validator accepted and a transaction call
\* that had reached handle_connect have both returned service_stopped.
C11_Witness ==
    \E c, d \in Calls :
        /\ kind[c] = "header" /\ pc[c] = "done" /\ vec[c] = Success
        /\ result[c] = <<"service_stopped">>
        /\ kind[d] = "tx" /\ pc[d] = "done"
        /\ Has(trace[d], "handle_connect") /\ vec[d] = Success
        /\ result[d] = <<"service_stopped">>

\* Call c, past its context free check, takes the step of organize or of a
\* continuation in which its result code is decided.
Decides(c) == pc[c] # "idle" /\ Acting(c) /\ ~Has(NewOps(c), "resume")

\* C12 as stated: both organizers test the stopped flag at pipeline entry
\* and at every continuation, so a call past its check whose code is
\* decided while its organizer is stopped ends with service_stopped, never
\* with duplicate_block or duplicate_transaction.
C12_StoppedAtEntry ==
    [][\A c \in Calls :
           (Decides(c) /\ IF kind[c] = "header" THEN h_stopped
                          ELSE t_stopped) =>
               StepCode(c) = "service_stopped"]_vars

\* C12 amended: the transaction organizer tests the flag at entry (under
\* the lock) and at every continuation, so a transaction call decided while
\* stopped ends with service_stopped; the header organizer tests it only in
\* handle_accept, so a header call decided while stopped ends with
\* duplicate_block when get_branch gives an empty branch, which it asks for
\* whatever the flag, and with service_stopped in handle_accept.
C12_StoppedAtEntryOfTx ==
    [][\A c \in Calls :
           /\ (kind[c] = "tx" /\ Decides(c) /\ t_stopped) =>
                  /\ StepCode(c) = "service_stopped"
                  /\ ~Has(NewOps(c), "pool_exists")
           /\ (kind[c] = "header" /\ pc[c] = "branch"
                   /\ pc'[c] # "branch") =>
                  /\ NewOps(c)[1] = "get_branch"
                  /\ branch_empty(get_branch(arg[c])) =>
                         ec'[c] = "duplicate_block"
                  /\ ~branch_empty(get_branch(arg[c])) => ec'[c] = NoCode
           /\ (kind[c] = "header" /\ Decides(c) /\ h_stopped) =>
                  StepCode(c) = IF pc[c] = "branch" THEN "duplicate_block"
                                ELSE "service_stopped"]_vars

\* With the header organizer stopped, a header call replaying an indexed
\* header has gone through get_branch and ended with duplicate_block.
C12_Witness ==
    \E d \in Calls :
        /\ h_stopped
        /\ kind[d] = "header" /\ pc[d] = "done" /\ IsIndexed(arg[d])
        /\ trace[d] = <<"check", "lock_high", "get_branch", "unlock_high",
                        "handler">>
        /\ result[d] = <<"duplicate_block">>

\* The step is the get_branch step of header call c.
BranchStep(c) == kind[c] = "header" /\ pc[c] = "branch" /\ pc'[c] # "branch"

\* C13: on an empty branch header organize returns at once: the step
\* releases the lock, sets duplicate_block for the handler and calls nothing
\* else, and a call that ended that way has unlocked once, invoked its
\* handler at most once and never called validator accept, get_work, pool
\* add or reorganize.
C13_EmptyBranchReturns ==
    /\ [][\A c \in Calls :
              (BranchStep(c) /\ branch_empty(get_branch(arg[c]))) =>
                  /\ NewOps(c) = <<"get_branch", "unlock_high">>
                  /\ ec'[c] = "duplicate_block"
                  /\ pc'[c] = "handler"
                  /\ owner = c /\ owner' = NoCall
                  /\ pool' = pool /\ chain_vars' = chain_vars]_vars
    /\ [](\A c \in Calls :
              (kind[c] = "header" /\ ec[c] = "duplicate_block") =>
                  /\ pc[c] \in {"handler", "done"}
                  /\ Unlocks(c) = 1
                  /\ Count(trace[c], "handler") <= 1
                  /\ Len(result[c]) = Count(trace[c], "handler")
                  /\ \A op \in {"accept", "handle_accept", "get_work",
                                "pool_add", "reorganize"} :
                         ~Has(trace[c], op))
    /\ [][\A c \in Calls :
              (kind[c] = "header" /\ ec[c] = "duplicate_block") =>
                  (NewOps(c) \in {<<>>, <<"handler">>} /\ owner'# c)]_vars

\* A header call that found an empty branch has returned after one unlock
\* and one handler invocation.
C13_Witness ==
    \E c \in Calls :
        /\ kind[c] = "header" /\ pc[c] = "done"
        /\ branch_empty(branch[c])
        /\ result[c] = <<"duplicate_block">>
        /\ Unlocks(c) = 1 /\ Count(trace[c], "handler") = 1

\* The header is already indexed, already pooled, or an orphan: its parent
\* is neither indexed nor pooled.
Known(h) == IsIndexed(h) \/ Pooled(h)
Orphan(h) == ~Known(h) /\ ~Known(Parent(h))

EnterStep(c) == kind[c] = "tx" /\ pc[c] = "entered" /\ pc'[c] # "entered"

\* C15: a transaction call that finds its organizer running and its tx in
\* the pool releases the low-priority lock and ends with
\* duplicate_transaction; the promise is not reset, and neither
\* validator accept or connect nor store is ever called.
C15_DuplicateTransaction ==
    /\ [][\A c \in Calls :
              (EnterStep(c) /\ ~t_stopped /\ pool_exists(arg[c])) =>
                  /\ NewOps(c) = <<"pool_exists", "unlock_low">>
                  /\ ec'[c] = "duplicate_transaction"
                  /\ owner = c /\ owner' = NoCall
                  /\ resume' = resume
                  /\ txpool' = txpool /\ chain_vars' = chain_vars]_vars
    /\ [](\A c \in Calls :
              (kind[c] = "tx" /\ ec[c] = "duplicate_transaction") =>
                  /\ pc[c] \in {"handler", "done"}
                  /\ Unlocks(c) = 1
                  /\ \A op \in {"reset", "accept", "handle_accept", "connect",
                                "handle_connect", "store", "signal"} :
                         ~Has(trace[c], op)
                  /\ pc[c] = "done" =>
                         result[c] = <<"duplicate_transaction">>)

\* A call for the pooled transaction has returned duplicate_transaction
\* while the promise still holds the code signalled to an earlier call.
C15_Witness ==
    \E c \in Calls :
        /\ kind[c] = "tx" /\ pc[c] = "done" /\ pool_exists(arg[c])
        /\ result[c] = <<"duplicate_transaction">>
        /\ resume.set /\ resume.value = Success

\* C16: the stages of transaction organize run in the order acceptance,
\* sufficient_fee, is_dusty, validator connect, store, each ending the call
\* on its error: connect is invoked exactly when handle_accept runs not
\* stopped after a successful acceptance of a tx that pays enough and is not
\* dusty; store is called exactly when handle_connect runs not stopped
\* after a successful connect, so at most once per call and after connect.
C16_StagesInOrder ==
    /\ [][\A c \in Calls :
              /\ TxContinuation(c, "handle_accept") =>
                     LET t == arg[c]
                         passed == ~t_stopped /\ vec'[c] = Success
                     IN /\ Has(NewOps(c), "connect") <=>
                               (passed /\ sufficient_fee(t) /\ ~is_dusty(t))
                        /\ ~Has(NewOps(c), "store")
                        /\ (~t_stopped /\ vec'[c] # Success) =>
                               StepCode(c) = vec'[c]
                        /\ (passed /\ ~sufficient_fee(t)) =>
                               StepCode(c) = "insufficient_fee"
                        /\ (passed /\ sufficient_fee(t) /\ is_dusty(t)) =>
                               StepCode(c) = "dusty_transaction"
              /\ TxContinuation(c, "handle_connect") =>
                     /\ Has(trace[c], "connect")
                     /\ Has(NewOps(c), "store") <=>
                            (~t_stopped /\ vec'[c] = Success)
                     /\ (~t_stopped /\ vec'[c] # Success) =>
                            StepCode(c) = vec'[c]
              /\ (kind[c] = "tx" /\ Has(NewOps(c), "store")) =>
                     TxContinuation(c, "handle_connect")]_vars
    /\ [](\A c \in Calls :
              kind[c] = "tx" =>
                  /\ Count(trace[c], "connect") <= 1
                  /\ Count(trace[c], "store") <= 1
                  /\ Has(trace[c], "connect") =>
                         Before(trace[c], "handle_accept", "connect")
                  /\ Has(trace[c], "store") =>
                         /\ Before(trace[c], "connect", "handle_connect")
                         /\ Before(trace[c], "handle_connect", "store"))

\* One call has stored its transaction after accept and connect, another
\* was turned down for its fee although its transaction is dusty as well.
C16_Witness ==
    \E c, d \in Calls :
        /\ kind[c] = "tx" /\ pc[c] = "done" /\ result[c] = <<Success>>
        /\ Count(trace[c], "store") = 1 /\ arg[c] \in txstore
        /\ kind[d] = "tx" /\ pc[d] = "done" /\ is_dusty(arg[d])
        /\ result[d] = <<"insufficient_fee">>

\* No other call for the transaction of call c is still under way.
AloneWith(c) ==
    \A d \in Calls \ {c} :
        (kind[d] = "tx" /\ arg[d] = arg[c]) => pc[d] = "done"

\* C17: once a transaction organize call has completed with success, the
\* pool knows the transaction, so the step a later call for the same
\* transaction takes after its lock ends it with duplicate_transaction
\* instead of handing the transaction to the validator again.
C17_AdmittedIsPooled ==
    /\ [](\A c \in Calls :
              (kind[c] = "tx" /\ pc[c] = "done" /\ result[c] = <<Success>>) =>
                  pool_exists(arg[c]))
    /\ [][\A c \in Calls :
              (EnterStep(c) /\ ~t_stopped /\ arg[c] \in txstore
                   /\ AloneWith(c)) =>
                  /\ ec'[c] = "duplicate_transaction"
                  /\ ~Has(NewOps(c), "accept")]_vars

\* The configured fees, in units of 1 / FeeScale satoshi, that a tx of the
\* quoted size and signature operations costs.
QuotedCost ==
    settings.byte_fee * quote.size + settings.sigop_fee * quote.sigops

\* The reference price: the whole satoshi in the cost, and at least one.
ReferencePrice ==
    LET floor == CHOOSE k \in 0..QuotedCost :
                     /\ k * FeeScale <= QuotedCost
                     /\ QuotedCost < (k + 1) * FeeScale
    IN IF floor >= 1 THEN floor ELSE 1

\* C18: a direct call of sufficient_fee returns true when both fees are
\* zero and otherwise exactly when the fees paid reach the reference price
\* max(1, floor(byte_fee * size + sigop_fee * sigops)): paying the price
\* is enough, paying one satoshi less is not.
C18_SufficientFeeIsPolicy ==
    quote.called =>
        IF settings.byte_fee = 0 /\ settings.sigop_fee = 0
        THEN quote.result = TRUE
        ELSE /\ quote.result = (quote.paid >= ReferencePrice)
             /\ quote.paid = ReferencePrice => quote.result = TRUE
             /\ quote.paid = ReferencePrice - 1 => quote.result = FALSE

\* A tx whose cost is not a whole number of satoshi and above one satoshi
\* pays exactly the floor of it and is accepted.
C18_Witness ==
    /\ quote.called /\ quote.result = TRUE
    /\ QuotedCost % FeeScale # 0
    /\ ReferencePrice > 1
    /\ quote.paid = ReferencePrice

\* Some fee is configured.
FeeConfigured == settings.byte_fee # 0 \/ settings.sigop_fee # 0

\* C19: whenever a fee is configured, sufficient_fee turns down every
\* transaction that pays nothing, the price being at least one satoshi
\* however small the fees, the size and the signature operations; a call
\* whose handle_accept gets as far as the fee policy with such a
\* transaction ends with insufficient_fee and goes no further.
C19_ZeroFeeRejected ==
    /\ [](FeeConfigured =>
              \A t \in Txs :
                  /\ price(TxSize(t), TxSigops(t)) >= 1
                  /\ TxFees(t) = 0 => ~sufficient_fee(t))
    /\ [][/\ SignalReachesHandler
          /\ \A c \in Calls :
                 (TxContinuation(c, "handle_accept") /\ ~t_stopped
                      /\ vec'[c] = Success /\ FeeConfigured
                      /\ TxFees(arg[c]) = 0) =>
                     /\ NewOps(c) = <<"handle_accept", "signal">>
                     /\ resume' = [set |-> TRUE,
                                   value |-> "insufficient_fee"]]_vars

\* With a quarter satoshi per signature operation configured, a transaction
\* of one signature operation that pays nothing has been turned down with
\* insufficient_fee: its cost is below one satoshi, its price is one.
C19_Witness ==
    \E c \in Calls :
        /\ kind[c] = "tx" /\ pc[c] = "done"
        /\ result[c] = <<"insufficient_fee">>
        /\ TxFees(arg[c]) = 0
        /\ settings.byte_fee * TxSize(arg[c])
               + settings.sigop_fee * TxSigops(arg[c]) \in 1..(FeeScale - 1)

\* The codes documented for the handler of header organize and of
\* transaction organize, validator codes included.
HeaderDocumented ==
    {Success, "duplicate_block", "insufficient_work", "service_stopped",
     "operation_failed"} \cup HeaderCheckCodes \cup HeaderAcceptCodes
TxDocumented ==
    {Success, "duplicate_transaction", "insufficient_fee",
     "dusty_transaction", "service_stopped"}
        \cup TxCheckCodes \cup TxAcceptCodes \cup TxConnectCodes

\* Every code the handler of call c has received is in the set.
Delivered(c, codes) == \A i \in DOMAIN result[c] : result[c][i] \in codes

\* C20 as stated: every code delivered to a handler is one of the
\* documented codes of its organizer.
C20_DocumentedCodes ==
    \A c \in Calls :
        /\ kind[c] = "header" => Delivered(c, HeaderDocumented)
        /\ kind[c] = "tx" => Delivered(c, TxDocumented)

\* C20 amended: every code delivered to a handler is one of the documented
\* codes of its organizer or the code of a failed reorganize (header
\* organize) or store (transaction organize), and that one only after the
\* write was made.
C20_DocumentedOrWriteCodes ==
    \A c \in Calls :
        /\ kind[c] = "header" =>
               /\ Delivered(c, HeaderDocumented \cup StoreCodes)
               /\ ~Delivered(c, HeaderDocumented) => Has(trace[c], "reorganize")
        /\ kind[c] = "tx" =>
               /\ Delivered(c, TxDocumented \cup StoreCodes)
               /\ ~Delivered(c, TxDocumented) => Has(trace[c], "store")

\* A header call has returned the code of its failed reorganize and a
\* transaction call the code of its failed store.
C20_Witness ==
    \E c, d \in Calls :
        /\ kind[c] = "header" /\ pc[c] = "done"
        /\ Has(trace[c], "reorganize") /\ result[c][1] \notin HeaderDocumented
        /\ kind[d] = "tx" /\ pc[d] = "done"
        /\ Has(trace[d], "store") /\ result[d][1] \notin TxDocumented

\* Transaction calls waiting in lock_low_priority.
LowWaiting == {c \in Calls : kind[c] = "tx" /\ pc[c] = "lock"}
\* Call c has just left its critical section: its handler is still to run.
JustReleased(c) ==
    /\ pc[c] = "handler"
    /\ trace[c][Len(trace[c])] \in {"unlock_high", "unlock_low"}

\* C21: when the mutex is released while a header call waits in
\* lock_high_priority, it can be granted to a header call and to no
\* transaction call, and whoever takes the free mutex while a header call
\* waits is a header call.
C21_HighBeforeLow ==
    /\ [][(owner # NoCall /\ owner' = NoCall /\ HighWaiting # {}) =>
              (CanLockHigh' /\ ~CanLockLow')]_vars
    /\ [][\A c \in Calls :
              (owner = NoCall /\ owner' = c /\ HighWaiting # {}) =>
                  kind[c] = "header"]_vars

\* A call has just released the mutex while a header call and a transaction
\* call are both waiting for it.
C21_Witness ==
    \E a \in Calls :
        /\ JustReleased(a)
        /\ owner = NoCall
        /\ HighWaiting # {}
        /\ LowWaiting # {}

\* Transaction call d holds the low-priority lock.
HoldsLow(d) == kind[d] = "tx" /\ InCriticalSection(d)
\* Header call c takes the step in which lock_high_priority returns.
EntersHigh(c) == kind[c] = "header" /\ pc[c] = "lock" /\ pc'[c] = "branch"

\* C22 as stated: while a transaction call holds the low-priority lock, a
\* header call waiting in lock_high_priority can enter its critical
\* section.
C22_LowHolderBlocksNoHeader ==
    \A c, d \in Calls :
        (HoldsLow(d) /\ c \in HighWaiting) => ENABLED LockHigh(c)

\* C22 amended: while a transaction call holds the low-priority lock, its
\* wait on the completion future included, no header call can enter its
\* critical section; a header call enters only when no transaction call
\* holds the lock, and a release by a transaction call with a header call
\* waiting leaves the mutex to the header calls.
C22_LowHolderBlocksHeader ==
    /\ [](\A c, d \in Calls :
              (HoldsLow(d) /\ c \in HighWaiting) => ~ENABLED LockHigh(c))
    /\ [][\A c, d \in Calls : EntersHigh(c) => ~HoldsLow(d)]_vars
    /\ [][\A d \in Calls :
              (HoldsLow(d) /\ ~HoldsLow(d)' /\ HighWaiting # {}) =>
                  ~CanLockLow']_vars

\* A transaction call is blocked on its completion future inside its
\* critical section (the validator's connect has still to call back) while
\* a header call waits in lock_high_priority.
C22_Witness ==
    \E c, d \in Calls :
        /\ kind[d] = "tx" /\ pc[d] = "connect" /\ owner = d /\ ~resume.set
        /\ c \in HighWaiting

\* Call c takes its handle_accept step with the organizer running and the
\* branch accepted, and get_work returns false.
GetWorkFails(c) ==
    /\ ~h_stopped
    /\ \E write \in StoreCodes : HandleAccept(c, Success, FALSE, write)

\* C23: when get_work fails in handle_accept, the step sets
\* operation_failed for the handler, releases the lock and changes neither
\* the pool nor the store; the call has then called neither pool add nor
\* reorganize and its handler receives operation_failed.
C23_GetWorkFailure ==
    /\ [][\A c \in Calls :
              GetWorkFails(c) =>
                  /\ ec'[c] = "operation_failed"
                  /\ owner = c /\ owner' = NoCall
                  /\ NewOps(c) = <<"handle_accept", "get_work", "unlock_high">>
                  /\ pool' = pool
                  /\ chain_vars' = chain_vars]_vars
    /\ [](\A c \in Calls :
              (kind[c] = "header" /\ ec[c] = "operation_failed") =>
                  /\ Count(trace[c], "unlock_high") = 1
                  /\ ~Has(trace[c], "pool_add")
                  /\ ~Has(trace[c], "reorganize")
                  /\ owner # c
                  /\ pc[c] = "done" => result[c] = <<"operation_failed">>)

\* A header call has returned operation_failed after its get_work call.
C23_Witness ==
    \E c \in Calls :
        /\ kind[c] = "header" /\ pc[c] = "done"
        /\ result[c] = <<"operation_failed">>
        /\ Has(trace[c], "get_work")

\* The top of the candidate index.
CandidateTop ==
    IF candidate = <<>> THEN Genesis ELSE candidate[Len(candidate)]
\* Call c takes a handle_accept step in which reorganize returns no error.
ReorganizeSucceeds(c) ==
    /\ AcceptStep(c)
    /\ Has(NewOps(c), "reorganize")
    /\ \E accept \in HeaderAcceptCodes, work_ok \in BOOLEAN :
           HandleAccept(c, accept, work_ok, Success)

\* C24: a header call arrives at success exactly in a handle_accept step
\* whose reorganize returns no error, made once in the call with the fork
\* point and the ordered headers of the branch, which end in the header
\* organized; when that step releases the lock the header is indexed and
\* is the candidate top, and a header on top of the old top extends the
\* index by itself.
C24_SuccessIffReorganized ==
    /\ [][\A c \in Calls :
              (kind[c] = "header" /\ ec[c] # Success /\ ec'[c] = Success) <=>
                  ReorganizeSucceeds(c)]_vars
    /\ [][\A c \in Calls :
              ReorganizeSucceeds(c) =>
                  /\ Count(trace'[c], "reorganize") = 1
                  /\ branch_top(branch[c]) = arg[c]
                  /\ IsIndexed(branch[c].fork)
                  /\ HeightOf(branch[c].fork) = branch[c].height
                  /\ \A i \in DOMAIN branch[c].headers :
                         Parent(branch[c].headers[i]) =
                             IF i = 1 THEN branch[c].fork
                             ELSE branch[c].headers[i - 1]
                  /\ candidate' = SubSeq(candidate, 1, branch[c].height)
                                      \o branch[c].headers
                  /\ owner = c /\ owner' = NoCall
                  /\ IsIndexed(arg[c])'
                  /\ CandidateTop' = arg[c]
                  /\ Parent(arg[c]) = CandidateTop =>
                         candidate' = Append(candidate, arg[c])]_vars
    /\ [](\A c \in Calls :
              (kind[c] = "header" /\ pc[c] = "done") =>
                  (result[c] = <<Success>> =>
                       Count(trace[c], "reorganize") = 1))

\* A header call has returned success after reorganizing a branch of two
\* headers in, and its header is the candidate top.
C24_Witness ==
    \E c \in Calls :
        /\ kind[c] = "header" /\ pc[c] = "done"
        /\ result[c] = <<Success>>
        /\ Len(branch[c].headers) = 2
        /\ CandidateTop = arg[c]

\* C25: no header is both in the header pool and indexed by the store, so a
\* tip pooled by an insufficient_work result has left the pool once a
\* branch containing it has been reorganized in.
C25_PoolHoldsNoIndexedHeader ==
    \A h \in Headers : ~(Pooled(h) /\ IsIndexed(h))

\* Call c takes a handle_connect step in which fast_chain_.store(tx) is
\* called and returns write.
StoreReturns(c, write) ==
    /\ Has(NewOps(c), "store")
    /\ \E connect \in TxConnectCodes : TxHandleConnect(c, connect, write)

\* C26: a transaction call is signalled success exactly by the
\* handle_connect step whose store returns no error; a store that returns
\* an error has that code signalled and leaves the transaction pool and
\* the stored transactions as they were; the signalled code is the one the
\* handler receives, after the low-priority lock has been released once.
C26_SuccessIffStored ==
    /\ [][\A c \in Calls :
              (kind[c] = "tx" /\ Has(NewOps(c), "signal")) =>
                  (resume'.value = Success <=> StoreReturns(c, Success))]_vars
    /\ [][\A c \in Calls : \A write \in StoreCodes \ {Success} :
              StoreReturns(c, write) =>
                  /\ resume'.value = write
                  /\ txpool' = txpool
                  /\ txstore' = txstore]_vars
    /\ [][SignalReachesHandler]_vars
    /\ [](\A c \in Calls :
              (kind[c] = "tx" /\ pc[c] = "done") =>
                  /\ result[c] = <<Success>> => Count(trace[c], "store") = 1
                  /\ Has(trace[c], "store") =>
                         /\ result[c][1] \in StoreCodes
                         /\ Count(trace[c], "unlock_low") = 1
                         /\ owner # c)

\* A transaction call has returned the code of its failed store, the lock
\* is released and the pool is as it was handed to the organizer.
C26_Witness ==
    \E c \in Calls :
        /\ kind[c] = "tx" /\ pc[c] = "done"
        /\ Has(trace[c], "store")
        /\ result[c] = <<"store_error">>
        /\ owner = NoCall
        /\ txpool = {1}

\* Call c has reset the promise and its wait on it has not returned yet.
Armed(c) ==
    kind[c] = "tx" /\ Has(trace[c], "reset") /\ ~Has(trace[c], "resume")

\* What a step that adds calls to the trace of call d does to the promise:
\* a reset is made by the lock holder and leaves the promise unset, a signal
\* is made by an armed call on an unset promise and sets the step's code, a
\* resume returns the promise's code, and no other call is armed meanwhile.
PromiseStep(d) ==
    LET ops == NewOps(d)
    IN  /\ Has(ops, "reset") =>
               /\ kind[d] = "tx" /\ owner = d /\ owner' = d
               /\ ~resume'.set
        /\ Has(ops, "signal") =>
               /\ Armed(d)
               /\ ~resume.set
               /\ resume' = [set |-> TRUE, value |-> StepCode(d)]
        /\ Has(ops, "resume") => ec'[d] = resume.value
        /\ (Has(ops, "reset") \/ Has(ops, "signal") \/ Has(ops, "resume")) =>
               \A c \in Calls \ {d} : ~Armed(c)

\* C27: the promise is reset only by the holder of the low-priority lock;
\* between a call's reset and the return of its wait no other call resets,
\* signals or waits on the promise, the call's own callback chain signals
\* once, on the promise as the reset left it, and the code it signals stays
\* in the promise until the wait returns it to that call, whose handler
\* receives it.
C27_PromiseWithinCall ==
    /\ [][\A d \in Calls : trace'[d] # trace[d] => PromiseStep(d)]_vars
    /\ [][resume' # resume =>
              \A c \in Calls :
                  /\ (Armed(c) /\ resume.set) => Has(NewOps(c), "resume")
                  /\ ~(kind[c] = "tx" /\ pc[c] = "wait" /\ pc'[c] = "wait")]_vars
    /\ [][\A c \in Calls :
              (pc[c] = "handler" /\ pc'[c] = "done") =>
                  result'[c] = <<ec[c]>>]_vars
    /\ [](\A c \in Calls :
              kind[c] = "tx" =>
                  /\ Count(trace[c], "signal") <= Count(trace[c], "reset")
                  /\ Count(trace[c], "reset") <= 1
                  /\ Armed(c) => owner = c
                  /\ Has(trace[c], "resume") =>
                         /\ Count(trace[c], "signal") = 1
                         /\ Count(trace[c], "resume") = 1
                         /\ Before(trace[c], "reset", "signal")
                         /\ Before(trace[c], "signal", "resume"))

\* Two transaction calls are in flight: one has been returned the code its
\* own chain signalled and the next has reset the promise and waits on it.
C27_Witness ==
    \E c, d \in Calls :
        /\ c # d
        /\ kind[c] = "tx" /\ pc[c] = "done" /\ Has(trace[c], "resume")
        /\ result[c] = <<"insufficient_fee">>
        /\ Armed(d) /\ resume.set /\ resume.value = Success

\* Transaction call c takes its handle_accept or its handle_connect step;
\* the validator's code is vec'[c].
TxAcceptStep(c) == kind[c] = "tx" /\ pc[c] = "accept" /\ pc'[c] # "accept"
TxConnectStep(c) == kind[c] = "tx" /\ pc[c] = "connect" /\ pc'[c] # "connect"
Signalled(c, code) == Has(NewOps(c), "signal") /\ resume'.value = code

\* C28: in handle_accept and handle_connect of the transaction organizer a
\* set stopped flag gives service_stopped whatever the validator's code,
\* an accept error is reported whatever the fee and the outputs, and an
\* insufficient fee is reported whether or not the tx is dusty; in
\* handle_accept of the header organizer a set stopped flag gives
\* service_stopped whatever the validator's code.
C28_Precedence ==
    /\ [][\A c \in Calls :
              TxAcceptStep(c) =>
                  IF t_stopped THEN Signalled(c, "service_stopped")
                  ELSE IF vec'[c] # Success THEN Signalled(c, vec'[c])
                  ELSE IF ~sufficient_fee(arg[c])
                       THEN Signalled(c, "insufficient_fee")
                  ELSE is_dusty(arg[c]) =>
                           Signalled(c, "dusty_transaction")]_vars
    /\ [][\A c \in Calls :
              TxConnectStep(c) =>
                  IF t_stopped THEN Signalled(c, "service_stopped")
                  ELSE vec'[c] # Success => Signalled(c, vec'[c])]_vars
    /\ [][\A c \in Calls :
              (AcceptStep(c) /\ h_stopped) =>
                  ec'[c] = "service_stopped"]_vars

\* A transaction that underpays and has a dust output has been turned down
\* with insufficient_fee, and a header call whose validator reported an
\* error while the organizer was stopped has returned service_stopped.
C28_Witness ==
    \E c, d \in Calls :
        /\ kind[c] = "tx" /\ pc[c] = "done"
        /\ ~sufficient_fee(arg[c]) /\ is_dusty(arg[c])
        /\ vec[c] = Success
        /\ result[c] = <<"insufficient_fee">>
        /\ kind[d] = "header" /\ pc[d] = "done"
        /\ vec[d] \notin {NoCode, Success}
        /\ result[d] = <<"service_stopped">>

\* Call c enters organize and validator_.check returns the error code.
CheckFails(c, code) ==
    /\ pc[c] = "idle" /\ pc'[c] # "idle"
    /\ \/ \E h \in Headers : OrganizeHeader(c, h, code)
       \/ \E t \in Txs : OrganizeTx(c, t, code)
CheckErrors == (HeaderCheckCodes \cup TxCheckCodes) \ {Success}

\* C29: when the check fails, the step that enters organize also invokes
\* the handler with the check's code, whether the organizer is stopped or
\* not, and the call is over: it never takes the mutex and neither reads
\* nor changes the pools, the promise or the store.
C29_CheckFailureIsSynchronous ==
    /\ [][\A c \in Calls : \A code \in CheckErrors :
              CheckFails(c, code) =>
                  /\ result'[c] = <<code>>
                  /\ trace'[c] = <<"check", "handler">>
                  /\ pc'[c] = "done"
                  /\ owner' = owner
                  /\ pool' = pool /\ txpool' = txpool
                  /\ resume' = resume
                  /\ chain_vars' = chain_vars]_vars
    /\ [](\A c \in Calls :
              (Len(trace[c]) >= 2 /\ trace[c][2] = "handler") =>
                  /\ pc[c] = "done"
                  /\ trace[c] = <<"check", "handler">>
                  /\ result[c] = <<ec[c]>>
                  /\ ec[c] \in CheckErrors
                  /\ owner # c)

\* A header call and a transaction call have both returned the code of
\* their failed check; the header organizer runs, the transaction organizer
\* is stopped.
C29_Witness ==
    \E c, d \in Calls :
        /\ kind[c] = "header" /\ pc[c] = "done"
        /\ trace[c] = <<"check", "handler">>
        /\ result[c] = <<"invalid_proof_of_work">>
        /\ kind[d] = "tx" /\ pc[d] = "done"
        /\ trace[d] = <<"check", "handler">>
        /\ result[d] = <<"empty_transaction">>
        /\ ~h_stopped /\ t_stopped

\* Call c has invoked its handler and does not hold the mutex.
Finished(c) == pc[c] = "done" /\ Len(result[c]) = 1 /\ owner # c

\* C30: under fair scheduling every header call past its check takes the
\* high-priority lock, releases it and invokes its handler; every
\* transaction call that holds the low-priority lock, stopped meanwhile or
\* not, is signalled, returns from its wait, releases the lock and invokes
\* its handler; and, the session making finitely many header calls, every
\* transaction call waiting for the lock acquires it.
C30_EveryCallCompletes ==
    /\ \A c \in Callers :
           (kind[c] = "header" /\ pc[c] = "lock") ~>
               (kind[c] = "header" /\ owner = c)
    /\ \A c \in Callers :
           (kind[c] = "header" /\ owner = c) ~>
               (kind[c] = "header" /\ Finished(c)
                    /\ Count(trace[c], "unlock_high") = 1)
    /\ \A c \in Callers :
           Armed(c) ~> (kind[c] = "tx" /\ Has(trace[c], "resume"))
    /\ \A c \in Callers :
           (kind[c] = "tx" /\ owner = c) ~>
               (kind[c] = "tx" /\ Finished(c)
                    /\ Count(trace[c], "unlock_low") = 1)
    /\ \A c \in Callers :
           (kind[c] = "tx" /\ pc[c] = "lock") ~> (kind[c] = "tx" /\ owner = c)

\* A transaction call whose organizer was stopped while it waited has been
\* signalled service_stopped and has returned it, and a header call that
\* waited for the mutex holds it.
C30_Witness ==
    \E a, b \in Callers :
        /\ kind[a] = "tx" /\ Finished(a) /\ Has(trace[a], "accept")
        /\ Has(trace[a], "resume")
        /\ result[a] = <<"service_stopped">>
        /\ kind[b] = "header" /\ owner = b

====
